---- MODULE Spec2Model ----
(***************************************************************************)
(* Model of the input-routing core of cosmic-comp (src/input/mod.rs):      *)
(* the per-seat side tables (Devices, SupressedKeys, ActiveOutput), the    *)
(* dispatcher Common::process_input_event and the hit test                 *)
(* Common::surface_under.  The build modelled has the "debug" feature      *)
(* compiled in (the egui overlay).  Floating point coordinates and scroll  *)
(* amounts are modelled by integers.                                       *)
(***************************************************************************)
EXTENDS Integers, Sequences, FiniteSets, TLC

VARIABLES
    devices,            \* per seat: Devices, HashMap<String, Vec<DeviceCapability>>
    keyboard,           \* per seat: seat.get_keyboard().is_some()
    pointer,            \* per seat: seat.get_pointer().is_some()
    supressed,          \* per seat: SupressedKeys, Vec<u32>
    active_output,      \* per seat: ActiveOutput user data, NoOutput when missing
    location,           \* per seat: pointer.current_location()
    focus,              \* per seat: the keyboard focus, NoFocus when there is none
    serial,             \* SERIAL_COUNTER: the serial next_serial() hands out next
    last_active_seat,   \* Common::last_active_seat
    egui_active,        \* Common::egui.active
    should_stop,        \* Common::should_stop
    panicked,           \* an unwrap()/expect() failed: the process is gone
    scene,              \* per output: its layer map and the Space of its active workspace
    hit,                \* a call of Common::surface_under: its arguments and its result
    last,               \* what the last processed event was and what it emitted
    held,               \* history: <<device, code>> of the keys a device holds down
    client_down,        \* history: <<seat, code>> of the forwarded presses not yet released
    sent                \* history: the serials of the events emitted, in emission order

vars == <<devices, keyboard, pointer, supressed, active_output, location,
          focus, serial, last_active_seat, egui_active, should_stop, panicked, scene, hit, last>>

\* The history variables are kept by the specifications that follow the keys
\* (SpecKeys) and the serials (SpecSerial) and stay as they are in the others.
history == <<held, client_down, sent>>
allvars == <<vars, history>>

----------------------------------------------------------------------------
(* The world the dispatcher runs in.                                       *)

\* Indices into Common::seats; seat 0 is the primary seat.
Seats == {0, 1}
NoSeat == 99

\* Device ids (Device::id()) and what Device::has_capability answers.
DeviceIds == {"kbd", "combo", "mouse"}
KeyboardDevices == {"kbd", "combo"}
PointerDevices == {"combo", "mouse"}

has_capability(d, c) ==
    CASE c = "Keyboard" -> d \in KeyboardDevices
      [] c = "Pointer"  -> d \in PointerDevices
      [] c = "Touch"    -> d = "combo"
      [] OTHER          -> FALSE

\* Bounds of the model.
MaxSupressed == 2

----------------------------------------------------------------------------
(* SupressedKeys                                                           *)

SupressedKeys_new == << >>

\* An add that keeps the Vec free of duplicates.
SupressedKeys_add_once(keys, code) ==
    IF \E i \in 1..Len(keys) : keys[i] = code THEN keys ELSE Append(keys, code)

SupressedKeys_add(keys, code) == Append(keys, code)

RemoveAt(seq, i) == [j \in 1..(Len(seq) - 1) |-> IF j < i THEN seq[j] ELSE seq[j + 1]]

Position(seq, x) ==
    IF \E i \in 1..Len(seq) : seq[i] = x
    THEN CHOOSE i \in 1..Len(seq) : seq[i] = x /\ \A j \in 1..(i - 1) : seq[j] # x
    ELSE 0

\* A filter that drops every instance of the code (Vec::retain) instead of the first.
SupressedKeys_filter_all(keys, code) ==
    [found |-> Position(keys, code) # 0,
     keys  |-> SelectSeq(keys, LAMBDA x : x # code)]

\* filter: removes the first instance of the code and says whether there was one.
SupressedKeys_filter(keys, code) ==
    LET i == Position(keys, code) IN
    IF i # 0 THEN [found |-> TRUE, keys |-> RemoveAt(keys, i)]
             ELSE [found |-> FALSE, keys |-> keys]

----------------------------------------------------------------------------
(* Devices                                                                 *)

Devices_new == << >>

\* map.values().flatten(): every capability some registered device has.
Provided(map) == UNION {map[i] : i \in DOMAIN map}

\* The caps Vec of add_device: Keyboard and Pointer only, whatever else the
\* device can do.
DeviceCaps(d) == {c \in {"Keyboard", "Pointer"} : has_capability(d, c)}

\* An add_device that reports the device's own capabilities, siblings or not.
Devices_add_device_own(map, d) ==
    [new_caps |-> DeviceCaps(d),
     map      |-> [i \in (DOMAIN map) \cup {d} |-> IF i = d THEN DeviceCaps(d) ELSE map[i]]]

Devices_add_device(map, d) ==
    [new_caps |-> {c \in DeviceCaps(d) : c \notin Provided(map)},
     map      |-> [i \in (DOMAIN map) \cup {d} |-> IF i = d THEN DeviceCaps(d) ELSE map[i]]]

Devices_has_device(map, d) == d \in DOMAIN map

\* A remove_device that reports the device's own capabilities, siblings or not.
Devices_remove_device_own(map, d) ==
    [removed |-> IF d \in DOMAIN map THEN map[d] ELSE {},
     map     |-> [i \in (DOMAIN map) \ {d} |-> map[i]]]

Devices_remove_device(map, d) ==
    LET rest == [i \in (DOMAIN map) \ {d} |-> map[i]] IN
    [removed |-> IF d \in DOMAIN map
                 THEN {c \in map[d] : c \notin Provided(rest)}
                 ELSE {},
     map     |-> rest]

----------------------------------------------------------------------------
(* Outputs, ActiveOutput                                                   *)

\* shell.outputs(), in iteration order, and shell.output_geometry(output).
Outputs == <<"A", "B">>
NoOutput == "none"

output_geometry(o) ==
    CASE o = "A" -> [loc |-> <<0, 0>>, size |-> <<2, 2>>]
      [] o = "B" -> [loc |-> <<3, 1>>, size |-> <<2, 2>>]

\* An active_output that answers the first output whatever the seat has stored.
active_output_first(ao) == Outputs[1]

\* active_output: the seat's ActiveOutput, else the first output.
active_output_of(ao) == IF ao # NoOutput THEN ao ELSE Outputs[1]

\* set_active_output: inserts the cell or overwrites it.
set_active_output(ao, output) == output

\* An insert that replaces the cell that is there.
insert_always(ao, output) == output

\* user_data().insert_if_missing(|| ActiveOutput(output)): keeps a cell that is there.
insert_if_missing(ao, output) == IF ao = NoOutput THEN output ELSE ao

----------------------------------------------------------------------------
(* Points, rectangles and Common::surface_under                            *)

Plus(p, q) == <<p[1] + q[1], p[2] + q[2]>>
Minus(p, q) == <<p[1] - q[1], p[2] - q[2]>>
Max(a, b) == IF a >= b THEN a ELSE b
Min(a, b) == IF a <= b THEN a ELSE b

\* Rectangle::contains: the origin is inside, the far edges are not.
Contains(rect, p) ==
    /\ p[1] >= rect.loc[1] /\ p[1] < rect.loc[1] + rect.size[1]
    /\ p[2] >= rect.loc[2] /\ p[2] < rect.loc[2] + rect.size[2]

Bands == {"Overlay", "Top", "Bottom", "Background"}
NoSurface == [surface |-> "none"]

\* The layer map of the output and the Space of its active workspace:
\*   layers   - the layer surfaces in mapping order, each with its band and its
\*              geometry relative to the output (LayerMap::layer_geometry);
\*   windows  - the windows from bottom to top, each with its location and size
\*              in the Space;
\*   loc      - space.output_geometry(output).loc, where the Space has the output.
\* A surface takes input over all of its geometry.
NoLayers == << >>

\* LayerMap::layer_under: the topmost layer of the band whose geometry has the point.
layer_under(layers, band, p) ==
    LET on == {i \in 1..Len(layers) : layers[i].layer = band /\ Contains(layers[i], p)} IN
    IF on = {} THEN 0 ELSE CHOOSE i \in on : \A j \in on : j <= i

\* layers.layer_under(first, p).or_else(|| layers.layer_under(second, p))
layer_under_or_else(layers, first, second, p) ==
    IF layer_under(layers, first, p) # 0 THEN layer_under(layers, first, p)
    ELSE layer_under(layers, second, p)

\* Space::window_under: the topmost window whose geometry has the point.
window_under(windows, p) ==
    LET on == {i \in 1..Len(windows) : Contains(windows[i], p)} IN
    IF on = {} THEN 0 ELSE CHOOSE i \in on : \A j \in on : j <= i

\* LayerSurface::surface_under / Window::surface_under, the point relative to
\* the surface's origin: the surface and its location when the point is on it.
SurfaceAt(s, p) == Contains([loc |-> <<0, 0>>, size |-> s.size], p)

\* Common::surface_under(global_pos, relative_pos, output, space), sc being the
\* layer map of the output and the space.
surface_under(global_pos, relative_pos, sc) ==
    LET offs  == Minus(relative_pos, global_pos)
        upper == layer_under_or_else(sc.layers, "Overlay", "Top", relative_pos)
        win   == window_under(sc.windows, relative_pos)
        lower == layer_under_or_else(sc.layers, "Bottom", "Background", relative_pos)
    IN
    IF upper # 0
    THEN IF SurfaceAt(sc.layers[upper],
                      Minus(Minus(relative_pos, sc.loc), sc.layers[upper].loc))
         THEN [surface |-> sc.layers[upper].id, loc |-> Minus(sc.layers[upper].loc, offs)]
         ELSE NoSurface
    ELSE IF win # 0
    THEN IF SurfaceAt(sc.windows[win], Minus(relative_pos, sc.windows[win].loc))
         THEN [surface |-> sc.windows[win].id, loc |-> Minus(sc.windows[win].loc, offs)]
         ELSE NoSurface
    ELSE IF lower # 0
    THEN IF SurfaceAt(sc.layers[lower],
                      Minus(Minus(relative_pos, sc.loc), sc.layers[lower].loc))
         THEN [surface |-> sc.layers[lower].id, loc |-> Minus(sc.layers[lower].loc, offs)]
         ELSE NoSurface
    ELSE NoSurface

\* shell.space_relative_output_geometry(position, output): the global position
\* in the coordinates of the Space, which has the output at sc.loc.
space_relative_output_geometry(position, output, sc) ==
    Plus(Minus(position, output_geometry(output).loc), sc.loc)

\* The scene of an ordinary run: a panel on top of A, a wallpaper under B, one
\* window on each, every workspace with its output at the origin of its Space.
\* focusable is what LayerSurface::can_receive_keyboard_focus answers.
DefaultScene ==
    [o \in {"A", "B"} |->
        IF o = "A"
        THEN [layers  |-> << [id |-> "panel", layer |-> "Top", focusable |-> FALSE,
                              loc |-> <<0, 0>>, size |-> <<2, 1>>] >>,
              windows |-> << [id |-> "win_a", loc |-> <<0, 0>>, size |-> <<1, 2>>] >>,
              loc     |-> <<0, 0>>]
        ELSE [layers  |-> << [id |-> "wallpaper", layer |-> "Background",
                              focusable |-> FALSE,
                              loc |-> <<0, 0>>, size |-> <<2, 2>>] >>,
              windows |-> << [id |-> "win_b", loc |-> <<1, 0>>, size |-> <<1, 1>>] >>,
              loc     |-> <<0, 0>>]]

NoHit == [result |-> "none"]

----------------------------------------------------------------------------
(* Key bindings (config.key_bindings) and the keyboard layout              *)

KeyCodes == {1, 2}
KeyStates == {"Pressed", "Released"}
Modifiers == {"Logo", "Shift", "Ctrl"}

\* KeysymHandle::raw_syms(): the keysyms of the key in the layout.
raw_syms(code) ==
    CASE code = 1 -> {"q"}
      [] code = 2 -> {"d", "ssharp"}

NoAction == [type |-> "None"]

\* The binding table in its iteration order.
key_bindings ==
    << [modifiers |-> {"Logo"},          key |-> "q",      action |-> [type |-> "Close"]],
       [modifiers |-> {"Logo"},          key |-> "d",      action |-> [type |-> "Debug"]],
       [modifiers |-> {"Logo"},          key |-> "ssharp", action |-> [type |-> "Workspace", n |-> 0]],
       [modifiers |-> {"Logo", "Shift"}, key |-> "q",      action |-> [type |-> "Terminate"]],
       [modifiers |-> {"Ctrl"},          key |-> "q",      action |-> [type |-> "Workspace", n |-> 0]],
       [modifiers |-> {"Ctrl"},          key |-> "d",      action |-> [type |-> "Workspace", n |-> 1]],
       [modifiers |-> {"Ctrl", "Shift"}, key |-> "q",      action |-> [type |-> "Workspace", n |-> 9]],
       [modifiers |-> {"Ctrl", "Shift"}, key |-> "d",      action |-> [type |-> "Workspace", n |-> 255]],
       [modifiers |-> {"Ctrl", "Logo"},  key |-> "q",
        action |-> [type |-> "MoveToWorkspace", n |-> 0]],
       [modifiers |-> {"Ctrl", "Logo"},  key |-> "d",
        action |-> [type |-> "MoveToWorkspace", n |-> 2]],
       [modifiers |-> {"Ctrl", "Logo", "Shift"}, key |-> "q",
        action |-> [type |-> "MoveToWorkspace", n |-> 10]] >>

\* A binding loop that accepts extra modifiers held beyond the binding's.
BindingMatches_subset(binding, code, state, modifiers) ==
    /\ state = "Pressed"
    /\ binding.modifiers \subseteq modifiers
    /\ binding.key \in raw_syms(code)

\* The condition of the binding loop, for one entry.
BindingMatches(binding, code, state, modifiers) ==
    /\ state = "Pressed"
    /\ binding.modifiers = modifiers
    /\ binding.key \in raw_syms(code)

\* A loop that goes on after a match and ends with the last entry that matches.
LastBinding(code, state, modifiers) ==
    LET hits == {i \in 1..Len(key_bindings) :
                    BindingMatches(key_bindings[i], code, state, modifiers)} IN
    IF hits = {} THEN 0 ELSE CHOOSE i \in hits : \A j \in hits : j <= i

\* The entry the loop returns at: the first that matches, 0 when none does.
FirstBinding(code, state, modifiers) ==
    LET hits == {i \in 1..Len(key_bindings) :
                    BindingMatches(key_bindings[i], code, state, modifiers)} IN
    IF hits = {} THEN 0 ELSE CHOOSE i \in hits : \A j \in hits : i <= j

----------------------------------------------------------------------------
(* Seat lookup                                                             *)

\* A seat scan that settles for the first seat when no seat has the device.
OwnerSeat_or_first(d) ==
    LET owners == {s \in Seats : Devices_has_device(devices[s], d)} IN
    IF owners = {} THEN 0 ELSE CHOOSE s \in owners : \A t \in owners : s <= t

\* A seat scan that keeps going and answers the last seat that has the device.
OwnerSeat_last(d) ==
    LET owners == {s \in Seats : Devices_has_device(devices[s], d)} IN
    IF owners = {} THEN NoSeat ELSE CHOOSE s \in owners : \A t \in owners : s >= t

\* for seat in self.seats ... if devices.has_device(&device) { ...; break }
OwnerSeat(d) ==
    LET owners == {s \in Seats : Devices_has_device(devices[s], d)} IN
    IF owners = {} THEN NoSeat ELSE CHOOSE s \in owners : \A t \in owners : s <= t

\* self.seats.iter().position(|x| x == seat).unwrap() == 0 && self.egui.active
OverlayActiveFor(seat) == seat = 0 /\ egui_active

Running == ~should_stop /\ ~panicked

\* The keyboard of a seat without a focused surface.
NoFocus == "none"

\* The model follows the first MaxSerial serials of SERIAL_COUNTER.
MaxSerial == 4

\* A counter that hands out the same serial again.
next_serial_same(counter) == counter

\* SERIAL_COUNTER.next_serial() hands out the counter's value and steps it.
next_serial(counter) == counter + 1

----------------------------------------------------------------------------
(* InputEvent::DeviceAdded                                                 *)

DeviceAdded(d) ==
    LET seat == last_active_seat
        r    == Devices_add_device(devices[seat], d)
    IN
    /\ Running
    /\ devices' = [devices EXCEPT ![seat] = r.map]
    /\ keyboard' = [keyboard EXCEPT ![seat] = @ \/ "Keyboard" \in r.new_caps]
    /\ pointer' = [pointer EXCEPT ![seat] = @ \/ "Pointer" \in r.new_caps]
    /\ active_output' =
          IF "Pointer" \in r.new_caps
          THEN [active_output EXCEPT ![seat] = insert_if_missing(@, Outputs[1])]
          ELSE active_output
    /\ location' =
          IF "Pointer" \in r.new_caps
          THEN [location EXCEPT ![seat] = <<0, 0>>]
          ELSE location
    /\ last' = [kind |-> "DeviceAdded", device |-> d, seat |-> seat,
                created |-> r.new_caps, removed |-> {}]
    /\ UNCHANGED <<supressed, focus, serial, last_active_seat, egui_active, should_stop,
                   panicked, scene, hit>>

----------------------------------------------------------------------------
(* InputEvent::DeviceRemoved                                               *)

\* A removal that drops the seat's ActiveOutput together with its pointer.
DeviceRemoved_forgets_output(d) ==
    LET seat == OwnerSeat(d) IN
    /\ Running
    /\ IF seat = NoSeat
       THEN /\ last' = [kind |-> "DeviceRemoved", device |-> d, seat |-> NoSeat,
                        created |-> {}, removed |-> {}]
            /\ UNCHANGED <<devices, keyboard, pointer, location, focus, active_output>>
       ELSE LET r == Devices_remove_device(devices[seat], d) IN
            /\ devices' = [devices EXCEPT ![seat] = r.map]
            /\ keyboard' = [keyboard EXCEPT ![seat] = @ /\ "Keyboard" \notin r.removed]
            /\ pointer' = [pointer EXCEPT ![seat] = @ /\ "Pointer" \notin r.removed]
            /\ location' = IF "Pointer" \in r.removed
                           THEN [location EXCEPT ![seat] = <<0, 0>>]
                           ELSE location
            /\ active_output' = IF "Pointer" \in r.removed
                                THEN [active_output EXCEPT ![seat] = NoOutput]
                                ELSE active_output
            /\ focus' = IF "Keyboard" \in r.removed
                        THEN [focus EXCEPT ![seat] = NoFocus]
                        ELSE focus
            /\ last' = [kind |-> "DeviceRemoved", device |-> d, seat |-> seat,
                        created |-> {}, removed |-> r.removed]
    /\ UNCHANGED <<supressed, serial, last_active_seat,
                   egui_active, should_stop, panicked, scene, hit>>

DeviceRemoved(d) ==
    LET seat == OwnerSeat(d) IN
    /\ Running
    /\ IF seat = NoSeat
       THEN /\ last' = [kind |-> "DeviceRemoved", device |-> d, seat |-> NoSeat,
                        created |-> {}, removed |-> {}]
            /\ UNCHANGED <<devices, keyboard, pointer, location, focus>>
       ELSE LET r == Devices_remove_device(devices[seat], d) IN
            /\ devices' = [devices EXCEPT ![seat] = r.map]
            /\ keyboard' = [keyboard EXCEPT ![seat] = @ /\ "Keyboard" \notin r.removed]
            /\ pointer' = [pointer EXCEPT ![seat] = @ /\ "Pointer" \notin r.removed]
            /\ location' = IF "Pointer" \in r.removed
                           THEN [location EXCEPT ![seat] = <<0, 0>>]
                           ELSE location
            /\ focus' = IF "Keyboard" \in r.removed
                        THEN [focus EXCEPT ![seat] = NoFocus]
                        ELSE focus
            /\ last' = [kind |-> "DeviceRemoved", device |-> d, seat |-> seat,
                        created |-> {}, removed |-> r.removed]
    /\ UNCHANGED <<supressed, active_output, serial, last_active_seat,
                   egui_active, should_stop, panicked, scene, hit>>

\* Common::last_active_seat is a field the rest of the compositor may set.
SetLastActiveSeat(s) ==
    /\ Running
    /\ s # last_active_seat
    /\ last_active_seat' = s
    /\ last' = [kind |-> "SetLastActiveSeat", seat |-> s]
    /\ UNCHANGED <<devices, keyboard, pointer, supressed, active_output, location,
                   focus, serial, egui_active, should_stop, panicked, scene, hit>>

----------------------------------------------------------------------------
(* InputEvent::Keyboard                                                    *)

\* A closure whose binding branch forgets SupressedKeys::add.
KeyFilter_no_add(seat, keys, code, state, modifiers, wants_debug, wants_log) ==
    LET f == SupressedKeys_filter(keys, code)
        b == FirstBinding(code, state, modifiers)
    IN
    IF state = "Released" /\ f.found
    THEN [result |-> "suppressed", action |-> NoAction, keys |-> f.keys]
    ELSE IF OverlayActiveFor(seat) /\ (wants_debug \/ wants_log)
    THEN [result |-> IF wants_debug THEN "debug_state" ELSE "log_state",
          action |-> NoAction, keys |-> SupressedKeys_add(keys, code)]
    ELSE IF b # 0
    THEN [result |-> "binding", action |-> key_bindings[b].action, keys |-> keys]
    ELSE [result |-> "forward", action |-> NoAction, keys |-> keys]

\* A closure that tries the bindings before it offers the key to the overlay.
KeyFilter_bindings_first(seat, keys, code, state, modifiers, wants_debug, wants_log) ==
    LET f == SupressedKeys_filter(keys, code)
        b == FirstBinding(code, state, modifiers)
    IN
    IF state = "Released" /\ f.found
    THEN [result |-> "suppressed", action |-> NoAction, keys |-> f.keys]
    ELSE IF b # 0
    THEN [result |-> "binding", action |-> key_bindings[b].action,
          keys |-> SupressedKeys_add(keys, code)]
    ELSE IF OverlayActiveFor(seat) /\ (wants_debug \/ wants_log)
    THEN [result |-> IF wants_debug THEN "debug_state" ELSE "log_state",
          action |-> NoAction, keys |-> SupressedKeys_add(keys, code)]
    ELSE [result |-> "forward", action |-> NoAction, keys |-> keys]

\* The closure given to KeyboardHandle::input: what it returns and what it
\* leaves in the seat's SupressedKeys.  wants_debug and wants_log are the
\* answers of egui.debug_state.wants_keyboard() and egui.log_state.wants_keyboard().
KeyFilter(seat, keys, code, state, modifiers, wants_debug, wants_log) ==
    LET f == SupressedKeys_filter(keys, code)
        b == FirstBinding(code, state, modifiers)
    IN
    IF state = "Released" /\ f.found
    THEN [result |-> "suppressed", action |-> NoAction, keys |-> f.keys]
    ELSE IF OverlayActiveFor(seat) /\ wants_debug
    THEN [result |-> "debug_state", action |-> NoAction,
          keys |-> SupressedKeys_add(keys, code)]
    ELSE IF OverlayActiveFor(seat) /\ wants_log
    THEN [result |-> "log_state", action |-> NoAction,
          keys |-> SupressedKeys_add(keys, code)]
    ELSE IF b # 0
    THEN [result |-> "binding", action |-> key_bindings[b].action,
          keys |-> SupressedKeys_add(keys, code)]
    ELSE [result |-> "forward", action |-> NoAction, keys |-> keys]

\* An index that is key_num - 1 in u8 for every key_num, 0 included.
WorkspaceIndex_minus_one(key_num) == (key_num - 1) % 256

\* The workspace index of Action::Workspace and Action::MoveToWorkspace.
WorkspaceIndex(key_num) == IF key_num = 0 THEN 9 ELSE key_num - 1

\* The index shell.activate / shell.move_current_window is called with, as an
\* Option: << >> for the actions that name no workspace.
WorkspaceActions == {"Workspace", "MoveToWorkspace"}
ActionWorkspace(action) ==
    IF action.type \in WorkspaceActions THEN <<WorkspaceIndex(action.n)>> ELSE << >>

\* match action { ... }: what the action does to the state kept here.
\* The actions on windows and workspaces ask for active_output(seat).
OutputActions == {"Close", "Workspace", "MoveToWorkspace", "Focus", "Orientation"}
ActionOutput(seat, action) ==
    IF action.type \in OutputActions THEN active_output_of(active_output[seat])
    ELSE NoOutput
ExecEguiActive(action) == IF action.type = "Debug" THEN ~egui_active ELSE egui_active
ExecShouldStop(action) == IF action.type = "Terminate" THEN TRUE ELSE should_stop

\* The model keeps at most MaxSupressed codes in the SupressedKeys of all seats.
WithinBounds(sup) == Len(sup[0]) + Len(sup[1]) <= MaxSupressed

Keyboard(d, code, state, modifiers, wants_debug, wants_log) ==
    LET seat == OwnerSeat(d) IN
    /\ Running
    /\ IF seat = NoSeat
       THEN /\ last' = [kind |-> "Keyboard", seat |-> NoSeat, result |-> "dropped",
                        action |-> NoAction, serials |-> 0]
            /\ UNCHANGED <<supressed, egui_active, should_stop, panicked, serial>>
       ELSE IF ~keyboard[seat]
       THEN /\ serial < MaxSerial
            /\ serial' = next_serial(serial)
            /\ panicked' = TRUE
            /\ last' = [kind |-> "Keyboard", seat |-> seat, code |-> code,
                        state |-> state, modifiers |-> modifiers,
                        result |-> "panic", action |-> NoAction, serials |-> 1]
            /\ UNCHANGED <<supressed, egui_active, should_stop>>
       ELSE LET r == KeyFilter(seat, supressed[seat], code, state, modifiers,
                               wants_debug, wants_log) IN
            /\ serial < MaxSerial
            /\ serial' = next_serial(serial)
            /\ supressed' = [supressed EXCEPT ![seat] = r.keys]
            /\ WithinBounds(supressed')
            /\ egui_active' = ExecEguiActive(r.action)
            /\ should_stop' = ExecShouldStop(r.action)
            /\ last' = [kind |-> "Keyboard", seat |-> seat, code |-> code,
                        state |-> state, modifiers |-> modifiers,
                        result |-> r.result, action |-> r.action, serials |-> 1,
                        serial |-> serial, output |-> ActionOutput(seat, r.action),
                        workspace |-> ActionWorkspace(r.action),
                        wants |-> <<wants_debug, wants_log>>]
            /\ UNCHANGED panicked
    /\ UNCHANGED <<devices, keyboard, pointer, active_output, location, focus,
                   last_active_seat, scene, hit>>

----------------------------------------------------------------------------
(* InputEvent::PointerMotion                                               *)

\* A handler that looks for the output only when the position has left every
\* output, and so never leaves the current one.
OutputAt_stay(position, current_output) == current_output

\* shell.outputs().find(|output| geometry contains position).unwrap_or(current_output)
OutputAt(position, current_output) ==
    LET on == {i \in 1..Len(Outputs) : Contains(output_geometry(Outputs[i]), position)} IN
    IF on = {} THEN current_output
    ELSE Outputs[CHOOSE i \in on : \A j \in on : i <= j]

\* position.x = 0.0.max(position.x).min(loc.x + size.w), and the same for y.
Clamp(position, geo) ==
    << Min(Max(0, position[1]), geo.loc[1] + geo.size[1]),
       Min(Max(0, position[2]), geo.loc[2] + geo.size[2]) >>

\* No move grab is in progress: handle_window_movement leaves the Space alone.
PointerMotion(d, delta) ==
    LET seat == OwnerSeat(d) IN
    /\ Running
    /\ IF seat = NoSeat
       THEN /\ last' = [kind |-> "PointerMotion", seat |-> NoSeat, result |-> "dropped",
                        serials |-> 0]
            /\ UNCHANGED <<active_output, location, panicked, serial>>
       ELSE IF ~pointer[seat]
       THEN /\ panicked' = TRUE
            /\ last' = [kind |-> "PointerMotion", seat |-> seat, result |-> "panic",
                        serials |-> 0]
            /\ UNCHANGED <<active_output, location, serial>>
       ELSE LET current_output == active_output_of(active_output[seat])
                moved          == Plus(location[seat], delta)
                output         == OutputAt(moved, current_output)
                position       == Clamp(moved, output_geometry(output))
                relative_pos   == space_relative_output_geometry(position, output,
                                                                 scene[output])
                under          == surface_under(position, relative_pos, scene[output])
            IN
            /\ serial < MaxSerial
            /\ serial' = next_serial(serial)
            /\ active_output' =
                  IF output # current_output
                  THEN [active_output EXCEPT ![seat] = set_active_output(@, output)]
                  ELSE active_output
            /\ location' = [location EXCEPT ![seat] = position]
            /\ last' = [kind |-> "PointerMotion", seat |-> seat, result |-> "motion",
                        position |-> position, output |-> output, under |-> under,
                        serials |-> 1, serial |-> serial,
                        moved |-> moved, current_output |-> current_output]
            /\ UNCHANGED panicked
    /\ UNCHANGED <<devices, keyboard, pointer, supressed, focus, last_active_seat,
                   egui_active, should_stop, scene, hit>>

----------------------------------------------------------------------------
(* InputEvent::PointerMotionAbsolute                                       *)

\* A position that leaves the output's origin out.
AbsolutePosition_unplaced(geometry, transformed) == transformed

\* geometry.loc.to_f64() + event.position_transformed(geometry.size)
AbsolutePosition(geometry, transformed) == Plus(geometry.loc, transformed)

\* transformed is event.position_transformed(geometry.size).
PointerMotionAbsolute(d, transformed) ==
    LET seat == OwnerSeat(d) IN
    /\ Running
    /\ IF seat = NoSeat
       THEN /\ last' = [kind |-> "PointerMotionAbsolute", seat |-> NoSeat,
                        result |-> "dropped", serials |-> 0]
            /\ UNCHANGED <<location, panicked, serial>>
       ELSE LET output       == active_output_of(active_output[seat])
                geometry     == output_geometry(output)
                position     == AbsolutePosition(geometry, transformed)
                relative_pos == space_relative_output_geometry(position, output,
                                                               scene[output])
                under        == surface_under(position, relative_pos, scene[output])
            IN
            /\ serial < MaxSerial
            /\ serial' = next_serial(serial)
            /\ IF ~pointer[seat]
               THEN /\ panicked' = TRUE
                    /\ last' = [kind |-> "PointerMotionAbsolute", seat |-> seat,
                                result |-> "panic", serials |-> 1]
                    /\ UNCHANGED location
               ELSE /\ location' = [location EXCEPT ![seat] = position]
                    /\ last' = [kind |-> "PointerMotionAbsolute", seat |-> seat,
                                result |-> "motion", position |-> position,
                                output |-> output, under |-> under,
                                serials |-> 1, serial |-> serial]
                    /\ UNCHANGED panicked
    /\ UNCHANGED <<devices, keyboard, pointer, supressed, active_output, focus,
                   last_active_seat, egui_active, should_stop, scene, hit>>

----------------------------------------------------------------------------
(* InputEvent::PointerButton                                               *)

ButtonStates == {"Pressed", "Released"}

\* What the press finds under the pointer, pos being the pointer's location
\* from the output's origin: the topmost layer or window there, and the surface
\* that gets the focus (NoFocus for a layer that cannot receive it).
NoTop == [kind |-> "none"]
FocusUnder(pos, sc) ==
    LET upper == layer_under_or_else(sc.layers, "Overlay", "Top", pos)
        win   == window_under(sc.windows, pos)
        lower == layer_under_or_else(sc.layers, "Bottom", "Background", pos)
        Layer(i) ==
            [top   |-> [kind |-> "layer", id |-> sc.layers[i].id,
                        focusable |-> sc.layers[i].focusable],
             under |-> IF /\ sc.layers[i].focusable
                          /\ SurfaceAt(sc.layers[i], Minus(pos, sc.layers[i].loc))
                       THEN sc.layers[i].id ELSE NoFocus]
    IN
    IF upper # 0 THEN Layer(upper)
    ELSE IF win # 0
    THEN [top   |-> [kind |-> "window", id |-> sc.windows[win].id, focusable |-> TRUE],
          under |-> IF SurfaceAt(sc.windows[win], Minus(pos, sc.windows[win].loc))
                    THEN sc.windows[win].id ELSE NoFocus]
    ELSE IF lower # 0 THEN Layer(lower)
    ELSE [top |-> NoTop, under |-> NoFocus]

\* Common::set_focus(surface, seat, None): the seat's keyboard, when it has
\* one, gets the surface as its focus, and no focus when there is no surface.
set_focus(f, seat, surface) ==
    IF keyboard[seat] THEN [f EXCEPT ![seat] = surface] ELSE f

\* A press that changes the focus whether or not the pointer is grabbed.
ChangesFocus_any_press(state, grabbed) == state = "Pressed"

\* ButtonState::Pressed => if !seat.get_pointer().unwrap().is_grabbed() { .. }
ChangesFocus(state, grabbed) == state = "Pressed" /\ ~grabbed

\* grabbed is what seat.get_pointer().unwrap().is_grabbed() answers; wants_debug
\* and wants_log are the answers of the overlay's wants_pointer().
PointerButton(d, state, grabbed, wants_debug, wants_log) ==
    LET seat == OwnerSeat(d) IN
    /\ Running
    /\ IF seat = NoSeat
       THEN /\ last' = [kind |-> "PointerButton", seat |-> NoSeat, result |-> "dropped",
                        serials |-> 0]
            /\ UNCHANGED <<focus, panicked, serial>>
       ELSE IF OverlayActiveFor(seat) /\ (wants_debug \/ wants_log)
       THEN /\ last' = [kind |-> "PointerButton", seat |-> seat,
                        result |-> IF wants_debug THEN "debug_state" ELSE "log_state",
                        state |-> state, serials |-> 0]
            /\ UNCHANGED <<focus, panicked, serial>>
       ELSE /\ serial < MaxSerial
            /\ serial' = next_serial(serial)
            /\ IF ~pointer[seat]
               THEN /\ panicked' = TRUE
                    /\ last' = [kind |-> "PointerButton", seat |-> seat,
                                result |-> "panic", state |-> state, serials |-> 1]
                    /\ UNCHANGED focus
               ELSE LET output == active_output_of(active_output[seat])
                        pos    == Minus(location[seat], output_geometry(output).loc)
                        found  == FocusUnder(pos, scene[output])
                        change == ChangesFocus(state, grabbed)
                    IN
                    /\ focus' = IF change THEN set_focus(focus, seat, found.under)
                                ELSE focus
                    /\ last' = [kind |-> "PointerButton", seat |-> seat,
                                result |-> "button", state |-> state,
                                grabbed |-> grabbed, set_focus |-> change,
                                top |-> IF change THEN found.top ELSE NoTop,
                                serials |-> 1, serial |-> serial]
                    /\ UNCHANGED panicked
    /\ UNCHANGED <<devices, keyboard, pointer, supressed, active_output, location,
                   last_active_seat, egui_active, should_stop, scene, hit>>

----------------------------------------------------------------------------
(* InputEvent::PointerAxis                                                 *)

\* Option<f64>: None, or Some(x) as <<x>>.
None == << >>
Some(x) == <<x>>

AxisSources == {"Continuous", "Finger", "Wheel", "WheelTilt"}

\* match event.source(): the wl_pointer::AxisSource of the frame.
FrameSource(source) == IF source \in {"Wheel", "WheelTilt"} THEN "Wheel" ELSE source

\* A discrete step stands for this much continuous scroll.
ScrollFactor == 3

\* event.amount(axis).unwrap_or_else(|| event.amount_discrete(axis).unwrap() * 3.0)
AxisUnwrapFails(amount, discrete) == amount = None /\ discrete = None

\* An amount taken from the step count whenever the device reports one.
AxisAmount_discrete_first(amount, discrete) ==
    IF discrete # None THEN discrete[1] * ScrollFactor ELSE amount[1]

AxisAmount(amount, discrete) ==
    IF amount # None THEN amount[1] ELSE discrete[1] * ScrollFactor

\* A frame that marks a resting axis stopped whatever the source is.
FrameAxis_stop_always(source, amount, discrete) ==
    IF AxisAmount(amount, discrete) # 0
    THEN [value |-> Some(AxisAmount(amount, discrete)), discrete |-> discrete,
          stop |-> FALSE]
    ELSE [value |-> None, discrete |-> None, stop |-> TRUE]

\* What the AxisFrame gets for one axis: value and discrete when the amount is
\* not zero, else stop when the source is a finger.
FrameAxis(source, amount, discrete) ==
    IF AxisAmount(amount, discrete) # 0
    THEN [value |-> Some(AxisAmount(amount, discrete)), discrete |-> discrete,
          stop |-> FALSE]
    ELSE [value |-> None, discrete |-> None, stop |-> FrameSource(source) = "Finger"]

\* What the overlay is handed for one axis:
\* amount_discrete(axis).or_else(|| amount(axis).map(|x| x * 3.0)).unwrap_or(0.0)
OverlayAmount(amount, discrete) ==
    IF discrete # None THEN discrete[1]
    ELSE IF amount # None THEN amount[1] * 3
    ELSE 0

\* wants_debug and wants_log are the answers of egui.debug_state.wants_pointer()
\* and egui.log_state.wants_pointer().  The loop over the seats asks the overlay
\* at seat 0, before it looks for the device.
PointerAxis(d, source, amount, discrete, wants_debug, wants_log) ==
    LET seat == OwnerSeat(d) IN
    /\ Running
    /\ IF OverlayActiveFor(0) /\ (wants_debug \/ wants_log)
       THEN /\ last' = [kind |-> "PointerAxis", seat |-> 0, owner |-> seat,
                        result |-> IF wants_debug THEN "debug_state" ELSE "log_state",
                        overlay |-> <<OverlayAmount(amount[1], discrete[1]),
                                      OverlayAmount(amount[2], discrete[2])>>]
            /\ UNCHANGED panicked
       ELSE IF seat = NoSeat
       THEN /\ last' = [kind |-> "PointerAxis", seat |-> NoSeat, result |-> "dropped"]
            /\ UNCHANGED panicked
       ELSE IF \/ AxisUnwrapFails(amount[1], discrete[1])
               \/ AxisUnwrapFails(amount[2], discrete[2])
               \/ ~pointer[seat]
       THEN /\ panicked' = TRUE
            /\ last' = [kind |-> "PointerAxis", seat |-> seat, result |-> "panic"]
       ELSE /\ last' = [kind |-> "PointerAxis", seat |-> seat, result |-> "frame",
                        source |-> source, amount |-> amount, discrete |-> discrete,
                        computed |-> <<AxisAmount(amount[1], discrete[1]),
                                       AxisAmount(amount[2], discrete[2])>>,
                        frame |-> [source |-> FrameSource(source),
                                   horizontal |-> FrameAxis(source, amount[1], discrete[1]),
                                   vertical |-> FrameAxis(source, amount[2], discrete[2])]]
            /\ UNCHANGED panicked
    /\ UNCHANGED <<devices, keyboard, pointer, supressed, active_output, location,
                   focus, serial, last_active_seat, egui_active, should_stop, scene, hit>>

----------------------------------------------------------------------------
(* Specifications                                                          *)

Init ==
    /\ devices = [s \in Seats |-> Devices_new]
    /\ keyboard = [s \in Seats |-> FALSE]
    /\ pointer = [s \in Seats |-> FALSE]
    /\ supressed = [s \in Seats |-> SupressedKeys_new]
    /\ active_output = [s \in Seats |-> NoOutput]
    /\ location = [s \in Seats |-> <<0, 0>>]
    /\ focus = [s \in Seats |-> NoFocus]
    /\ serial = 0
    /\ last_active_seat = 0
    /\ egui_active = FALSE
    /\ should_stop = FALSE
    /\ panicked = FALSE
    /\ scene = DefaultScene
    /\ hit = NoHit
    /\ last = [kind |-> "Init"]
    /\ held = {}
    /\ client_down = {}
    /\ sent = << >>

\* What the backend delivers.  A keyboard event carries the modifier state the
\* seat's keyboard is in after the key (the closure's `modifiers`) and what the
\* two overlay windows answer to wants_keyboard().
ModifierStates == {{}, {"Logo"}, {"Logo", "Shift"}}

DeviceAddedEvent == \E d \in DeviceIds : DeviceAdded(d) /\ UNCHANGED history
DeviceRemovedEvent == \E d \in DeviceIds : DeviceRemoved(d) /\ UNCHANGED history
LastActiveSeatChange == \E s \in Seats : SetLastActiveSeat(s) /\ UNCHANGED history

NextDevices ==
    \/ DeviceAddedEvent
    \/ DeviceRemovedEvent
    \/ LastActiveSeatChange

\* Hot-plug alone: the registry and the capability objects.
SpecDevices == Init /\ [][NextDevices]_allvars

\* The handler reads the source device only through has_device, so one keyboard,
\* delivering any sequence of key events, stands for all the keyboards of a seat.
KeyEventSources == {"kbd"}

KeyboardAdded == \E d \in KeyEventSources : DeviceAdded(d) /\ UNCHANGED history
KeyboardRemoved == \E d \in KeyEventSources : DeviceRemoved(d) /\ UNCHANGED history
KeyboardEvent ==
    \E d \in KeyEventSources, code \in KeyCodes, state \in KeyStates,
       modifiers \in ModifierStates, wants_debug \in BOOLEAN, wants_log \in BOOLEAN :
        Keyboard(d, code, state, modifiers, wants_debug, wants_log) /\ UNCHANGED history

NextKeyboard ==
    \/ KeyboardAdded
    \/ KeyboardRemoved
    \/ LastActiveSeatChange
    \/ KeyboardEvent

\* Keyboards come and go and deliver key events.
SpecKeyboard == Init /\ [][NextKeyboard]_allvars

\* The keys of one keyboard on the primary seat, followed from the device to
\* the client: a plugged device presses a key it does not hold and releases one
\* it holds, and unplugging it ends what it held.  A seat whose keyboard object is
\* torn down takes the client's keyboard with it.
KeysAdded == \E d \in KeyEventSources : DeviceAdded(d) /\ UNCHANGED history

KeysRemoved ==
    \E d \in KeyEventSources :
        /\ DeviceRemoved(d)
        /\ held' = {h \in held : h[1] # d}
        /\ client_down' = {c \in client_down : keyboard'[c[1]]}
        /\ UNCHANGED sent

KeysEvent ==
    \E d \in KeyEventSources, code \in KeyCodes, state \in KeyStates,
       modifiers \in ModifierStates, wants_debug \in BOOLEAN, wants_log \in BOOLEAN :
        /\ OwnerSeat(d) # NoSeat
        /\ (state = "Pressed") <=> (<<d, code>> \notin held)
        /\ Keyboard(d, code, state, modifiers, wants_debug, wants_log)
        /\ held' = IF state = "Pressed" THEN held \cup {<<d, code>>}
                                        ELSE held \ {<<d, code>>}
        /\ client_down' =
              IF last'.result # "forward" THEN client_down
              ELSE IF state = "Pressed" THEN client_down \cup {<<last'.seat, code>>}
              ELSE client_down \ {<<last'.seat, code>>}
        /\ UNCHANGED sent

NextKeys ==
    \/ KeysAdded
    \/ KeysRemoved
    \/ KeysEvent

SpecKeys == Init /\ [][NextKeys]_allvars

\* A mouse comes and goes and moves the pointer of the seat it is on.
PointerEventSources == {"mouse"}
Deltas == {<<dx, dy>> : dx \in {-3, -1, 0, 1, 3}, dy \in {-1, 0, 1}}

PointerAdded == \E d \in PointerEventSources : DeviceAdded(d) /\ UNCHANGED history
PointerRemoved == \E d \in PointerEventSources : DeviceRemoved(d) /\ UNCHANGED history
PointerMotionEvent ==
    \E d \in PointerEventSources, delta \in Deltas :
        PointerMotion(d, delta) /\ UNCHANGED history

NextPointer ==
    \/ PointerAdded
    \/ PointerRemoved
    \/ LastActiveSeatChange
    \/ PointerMotionEvent

SpecPointer == Init /\ [][NextPointer]_allvars

\* One device with keys and a wheel on the primary seat: Logo+d switches the
\* overlay, and the device scrolls.
AxisEventSources == {"combo"}
Amounts == {None, Some(0), Some(2)}
Steps == {None, Some(0), Some(1)}

AxisDeviceAdded == \E d \in AxisEventSources : DeviceAdded(d) /\ UNCHANGED history
AxisDeviceRemoved == \E d \in AxisEventSources : DeviceRemoved(d) /\ UNCHANGED history
OverlayKey ==
    \E d \in AxisEventSources, state \in KeyStates :
        Keyboard(d, 2, state, {"Logo"}, FALSE, FALSE) /\ UNCHANGED history
PointerAxisEvent ==
    \E d \in AxisEventSources, source \in AxisSources,
       amount \in Amounts \X Amounts, discrete \in Steps \X Steps,
       wants_debug \in BOOLEAN, wants_log \in BOOLEAN :
        PointerAxis(d, source, amount, discrete, wants_debug, wants_log) /\ UNCHANGED history

NextAxis ==
    \/ AxisDeviceAdded
    \/ AxisDeviceRemoved
    \/ OverlayKey
    \/ PointerAxisEvent

SpecAxis == Init /\ [][NextAxis]_allvars

\* One device with keys and buttons: it moves the pointer, by steps or to a
\* place of the active output, clicks, and switches the overlay with Logo+d.
ButtonEventSources == {"combo"}
ButtonDeltas == {<<0, 1>>, <<0, -1>>, <<1, 0>>, <<3, 0>>}
Places == {<<0, 0>>, <<1, 1>>}

ButtonDeviceAdded == \E d \in ButtonEventSources : DeviceAdded(d) /\ UNCHANGED history
ButtonDeviceRemoved == \E d \in ButtonEventSources : DeviceRemoved(d) /\ UNCHANGED history
ButtonOverlayKey ==
    \E d \in ButtonEventSources, state \in KeyStates :
        Keyboard(d, 2, state, {"Logo"}, FALSE, FALSE) /\ UNCHANGED history
ButtonMotion ==
    \E d \in ButtonEventSources, delta \in ButtonDeltas :
        PointerMotion(d, delta) /\ UNCHANGED history
ButtonMotionAbsolute ==
    \E d \in ButtonEventSources, transformed \in Places :
        PointerMotionAbsolute(d, transformed) /\ UNCHANGED history
ButtonEvent ==
    \E d \in ButtonEventSources, state \in ButtonStates, grabbed \in BOOLEAN,
       wants_debug \in BOOLEAN, wants_log \in BOOLEAN :
        PointerButton(d, state, grabbed, wants_debug, wants_log) /\ UNCHANGED history

NextButton ==
    \/ ButtonDeviceAdded
    \/ ButtonDeviceRemoved
    \/ ButtonOverlayKey
    \/ ButtonMotion
    \/ ButtonMotionAbsolute
    \/ ButtonEvent

SpecButton == Init /\ [][NextButton]_allvars

\* Two devices with keys, buttons and a wheel, each on one seat or the other:
\* Logo+d from the primary seat switches the overlay, and both devices type,
\* click and scroll while the overlay wants the input or not.
OverlayEventSources == {"kbd", "combo"}

OverlayDeviceAdded == \E d \in OverlayEventSources : DeviceAdded(d) /\ UNCHANGED history
OverlaySeatChange == \E s \in Seats : SetLastActiveSeat(s) /\ UNCHANGED history
OverlaySwitch ==
    \E d \in OverlayEventSources :
        Keyboard(d, 2, "Pressed", {"Logo"}, FALSE, FALSE) /\ UNCHANGED history
OverlayTyping ==
    \E d \in OverlayEventSources, wants_debug \in BOOLEAN :
        Keyboard(d, 1, "Pressed", {}, wants_debug, FALSE) /\ UNCHANGED history
OverlayButton ==
    \E d \in OverlayEventSources \cap PointerDevices, wants_debug \in BOOLEAN :
        PointerButton(d, "Released", FALSE, wants_debug, FALSE) /\ UNCHANGED history
OverlayAxis ==
    \E d \in OverlayEventSources \cap PointerDevices,
       wants_debug \in BOOLEAN, wants_log \in BOOLEAN :
        /\ PointerAxis(d, "Wheel", <<None, None>>, <<Some(1), Some(0)>>,
                       wants_debug, wants_log)
        /\ UNCHANGED history

NextOverlay ==
    \/ OverlayDeviceAdded
    \/ OverlaySeatChange
    \/ OverlaySwitch
    \/ OverlayTyping
    \/ OverlayButton
    \/ OverlayAxis

SpecOverlay == Init /\ [][NextOverlay]_allvars

\* A keyboard and a device with keys, buttons and a wheel are plugged into
\* the last-active seat and unplugged again, and both send events whether they
\* are registered at the moment or not.
StrayEventSources == {"kbd", "combo"}

StrayDeviceAdded == \E d \in StrayEventSources : DeviceAdded(d) /\ UNCHANGED history
StrayDeviceRemoved == \E d \in StrayEventSources : DeviceRemoved(d) /\ UNCHANGED history
StrayKey ==
    \E d \in StrayEventSources, code \in KeyCodes :
        Keyboard(d, code, "Pressed", {"Logo"}, FALSE, FALSE) /\ UNCHANGED history
StrayMotion ==
    \E d \in StrayEventSources \cap PointerDevices :
        PointerMotion(d, <<3, 1>>) /\ UNCHANGED history
StrayMotionAbsolute ==
    \E d \in StrayEventSources \cap PointerDevices :
        PointerMotionAbsolute(d, <<0, 1>>) /\ UNCHANGED history
StrayButton ==
    \E d \in StrayEventSources \cap PointerDevices, wants_debug \in BOOLEAN :
        PointerButton(d, "Pressed", FALSE, wants_debug, FALSE) /\ UNCHANGED history
StrayAxis ==
    \E d \in StrayEventSources \cap PointerDevices, wants_debug \in BOOLEAN :
        /\ PointerAxis(d, "Wheel", <<None, None>>, <<Some(1), Some(0)>>,
                       wants_debug, FALSE)
        /\ UNCHANGED history

NextStray ==
    \/ StrayDeviceAdded
    \/ StrayDeviceRemoved
    \/ StrayKey
    \/ StrayMotion
    \/ StrayMotionAbsolute
    \/ StrayButton
    \/ StrayAxis

SpecStray == Init /\ [][NextStray]_allvars

\* The registries by themselves: any device is added to and removed from
\* either registry in any order, registered or not.
RegistryAdd ==
    \E s \in Seats, d \in DeviceIds :
        LET r == Devices_add_device(devices[s], d) IN
        /\ devices' = [devices EXCEPT ![s] = r.map]
        /\ last' = [kind |-> "add_device", registry |-> s, device |-> d,
                    returned |-> r.new_caps]
        /\ UNCHANGED <<keyboard, pointer, supressed, active_output, location, focus,
                       serial, last_active_seat, egui_active, should_stop, panicked,
                       scene, hit>>
        /\ UNCHANGED history
RegistryRemove ==
    \E s \in Seats, d \in DeviceIds :
        LET r == Devices_remove_device(devices[s], d) IN
        /\ devices' = [devices EXCEPT ![s] = r.map]
        /\ last' = [kind |-> "remove_device", registry |-> s, device |-> d,
                    returned |-> r.removed]
        /\ UNCHANGED <<keyboard, pointer, supressed, active_output, location, focus,
                       serial, last_active_seat, egui_active, should_stop, panicked,
                       scene, hit>>
        /\ UNCHANGED history

NextRegistry ==
    \/ RegistryAdd
    \/ RegistryRemove

SpecRegistry == Init /\ [][NextRegistry]_allvars

\* One device with keys and a pointer, on either seat: it moves the pointer
\* over to the other output and types the workspace bindings.
WorkspaceEventSources == {"combo"}
WorkspaceModifierStates ==
    {{"Ctrl"}, {"Ctrl", "Shift"}, {"Ctrl", "Logo"}, {"Ctrl", "Logo", "Shift"}}

WorkspaceDeviceAdded == \E d \in WorkspaceEventSources : DeviceAdded(d) /\ UNCHANGED history
WorkspaceSeatChange == \E s \in Seats : SetLastActiveSeat(s) /\ UNCHANGED history
WorkspaceMotion ==
    \E d \in WorkspaceEventSources : PointerMotion(d, <<3, 1>>) /\ UNCHANGED history
WorkspaceKey ==
    \E d \in WorkspaceEventSources, code \in KeyCodes, state \in KeyStates,
       modifiers \in WorkspaceModifierStates :
        Keyboard(d, code, state, modifiers, FALSE, FALSE) /\ UNCHANGED history

NextWorkspace ==
    \/ WorkspaceDeviceAdded
    \/ WorkspaceSeatChange
    \/ WorkspaceMotion
    \/ WorkspaceKey

SpecWorkspace == Init /\ [][NextWorkspace]_allvars

\* A keyboard and a mouse, on one seat or on two, with the serials of what
\* reaches the clients written down: a key event that is forwarded, a pointer
\* motion and a button event carry the serial their handler took.
SerialEventSources == {"kbd", "mouse"}
SerialDeltas == {<<3, 1>>}

Emitted(l) ==
    \/ l.kind = "Keyboard" /\ l.result = "forward"
    \/ l.kind \in {"PointerMotion", "PointerMotionAbsolute"} /\ l.result = "motion"
    \/ l.kind = "PointerButton" /\ l.result = "button"

Send == sent' = IF Emitted(last') THEN Append(sent, last'.serial) ELSE sent

SerialDeviceAdded ==
    \E d \in SerialEventSources : DeviceAdded(d) /\ UNCHANGED history
SerialSeatChange == \E s \in Seats : SetLastActiveSeat(s) /\ UNCHANGED history
SerialKey ==
    \E state \in KeyStates, modifiers \in {{}, {"Logo"}} :
        /\ Keyboard("kbd", 1, state, modifiers, FALSE, FALSE)
        /\ Send
        /\ UNCHANGED <<held, client_down>>
SerialMotion ==
    \E delta \in SerialDeltas :
        /\ PointerMotion("mouse", delta)
        /\ Send
        /\ UNCHANGED <<held, client_down>>
SerialMotionAbsolute ==
    /\ PointerMotionAbsolute("mouse", <<1, 1>>)
    /\ Send
    /\ UNCHANGED <<held, client_down>>
SerialButton ==
    \E state \in ButtonStates :
        /\ PointerButton("mouse", state, FALSE, FALSE, FALSE)
        /\ Send
        /\ UNCHANGED <<held, client_down>>

NextSerial ==
    \/ SerialDeviceAdded
    \/ SerialSeatChange
    \/ SerialKey
    \/ SerialMotion
    \/ SerialMotionAbsolute
    \/ SerialButton

SpecSerial == Init /\ [][NextSerial]_allvars

\* A keyboard and a mouse, plugged into either seat, with every kind of event:
\* the bound key Logo+q, which closes a window of the active output, motion by
\* steps that cross from one output to the other and into the gap between
\* them, absolute motion, buttons and scrolling.
OutputEventSources == {"kbd", "mouse"}
OutputDeltas == {<<3, 1>>, <<-3, -1>>, <<-1, 0>>}

OutputDeviceAdded ==
    \E d \in OutputEventSources : DeviceAdded(d) /\ UNCHANGED history
OutputDeviceRemoved ==
    \E d \in OutputEventSources : DeviceRemoved(d) /\ UNCHANGED history
OutputSeatChange == \E s \in Seats : SetLastActiveSeat(s) /\ UNCHANGED history
OutputKey ==
    \E state \in KeyStates :
        Keyboard("kbd", 1, state, {"Logo"}, FALSE, FALSE) /\ UNCHANGED history
OutputMotion ==
    \E delta \in OutputDeltas : PointerMotion("mouse", delta) /\ UNCHANGED history
OutputMotionAbsolute ==
    PointerMotionAbsolute("mouse", <<1, 1>>) /\ UNCHANGED history
OutputButton ==
    \E state \in ButtonStates :
        PointerButton("mouse", state, FALSE, FALSE, FALSE) /\ UNCHANGED history
OutputAxis ==
    PointerAxis("mouse", "Finger", <<Some(2), Some(0)>>, <<None, None>>, FALSE, FALSE)
        /\ UNCHANGED history

NextOutput ==
    \/ OutputDeviceAdded
    \/ OutputDeviceRemoved
    \/ OutputSeatChange
    \/ OutputKey
    \/ OutputMotion
    \/ OutputMotionAbsolute
    \/ OutputButton
    \/ OutputAxis

SpecOutput == Init /\ [][NextOutput]_allvars

\* The hit test on its own, over the scenes an output can show: one layer
\* surface in any band and one window, of either size and at either place, in a
\* Space that has the output at its origin or at the output's global location.
\* The positions asked for are those of the output, and relative_pos is what
\* the motion handlers pass for them.
SurfaceSizes == {<<1, 1>>, <<2, 2>>}
SurfacePlaces == {<<0, 0>>, <<1, 0>>}
SpaceOrigins(output) == {<<0, 0>>, output_geometry(output).loc}

ScenesOf(output) ==
    {[layers  |-> << [id |-> "layer", layer |-> band, focusable |-> TRUE,
                       loc |-> lloc, size |-> lsize] >>,
      windows |-> << [id |-> "window", loc |-> Plus(origin, wloc), size |-> wsize] >>,
      loc     |-> origin] :
        band \in Bands, lloc \in SurfacePlaces, lsize \in SurfaceSizes,
        wloc \in SurfacePlaces, wsize \in SurfaceSizes, origin \in SpaceOrigins(output)}

HitOutputs == {"A", "B"}

InitHit ==
    /\ devices = [s \in Seats |-> Devices_new]
    /\ keyboard = [s \in Seats |-> FALSE]
    /\ pointer = [s \in Seats |-> FALSE]
    /\ supressed = [s \in Seats |-> SupressedKeys_new]
    /\ active_output = [s \in Seats |-> NoOutput]
    /\ location = [s \in Seats |-> <<0, 0>>]
    /\ focus = [s \in Seats |-> NoFocus]
    /\ serial = 0
    /\ last_active_seat = 0
    /\ egui_active = FALSE
    /\ should_stop = FALSE
    /\ panicked = FALSE
    /\ \E sc \in ScenesOf("B") : scene = [DefaultScene EXCEPT !["B"] = sc]
    /\ hit = NoHit
    /\ last = [kind |-> "Init"]
    /\ held = {}
    /\ client_down = {}
    /\ sent = << >>

PositionsOn(output) ==
    LET geo == output_geometry(output) IN
    {<<x, y>> : x \in geo.loc[1]..(geo.loc[1] + geo.size[1] - 1),
                y \in geo.loc[2]..(geo.loc[2] + geo.size[2] - 1)}

SurfaceUnder ==
    \E output \in HitOutputs : \E position \in PositionsOn(output) :
        LET relative_pos == space_relative_output_geometry(position, output,
                                                           scene[output]) IN
        /\ hit' = [result |-> "hit", output |-> output, position |-> position,
                   relative_pos |-> relative_pos,
                   under |-> surface_under(position, relative_pos, scene[output])]
        /\ UNCHANGED <<devices, keyboard, pointer, supressed, active_output, location,
                       focus, serial, last_active_seat, egui_active, should_stop, panicked, scene,
                       last, history>>

NextHit == SurfaceUnder

SpecHit == InitHit /\ [][NextHit]_allvars

----------------------------------------------------------------------------
(* Properties                                                              *)

\* How often a code is in a SupressedKeys.
Count(keys, code) == Cardinality({i \in 1..Len(keys) : keys[i] = code})

\* The step just taken handled a key event of a device the seat owns.
KeyStep(seat, code, state) ==
    /\ last'.kind = "Keyboard"
    /\ last'.seat = seat
    /\ last'.code = code
    /\ last'.state = state

\* C1: after every DeviceAdded/DeviceRemoved a seat has a keyboard (pointer)
\* object iff some device registered on it contributes Keyboard (Pointer); the
\* object is created only when the capability goes from no provider to one,
\* and torn down only when it goes from one provider to none.
C1_CapabilityIffProvided ==
    \A s \in Seats :
        /\ keyboard[s] <=> "Keyboard" \in Provided(devices[s])
        /\ pointer[s] <=> "Pointer" \in Provided(devices[s])

C1_CreatedAndRemovedAtTransitions ==
    /\ last'.kind = "DeviceAdded" =>
          /\ last'.created = Provided(devices'[last'.seat]) \ Provided(devices[last'.seat])
          /\ last'.removed = {}
    /\ (last'.kind = "DeviceRemoved" /\ last'.seat # NoSeat) =>
          /\ last'.removed = Provided(devices[last'.seat]) \ Provided(devices'[last'.seat])
          /\ last'.created = {}

C1_CapabilitiesFollowDevices ==
    []C1_CapabilityIffProvided /\ [][C1_CreatedAndRemovedAtTransitions]_vars

\* A second keyboard-capable device joined a seat and only its pointer was created.
C1_Witness ==
    /\ last.kind = "DeviceAdded"
    /\ last.device = "combo"
    /\ last.created = {"Pointer"}
    /\ DOMAIN devices[last.seat] = {"kbd", "combo"}
    /\ keyboard[last.seat]

\* C2: the release of a code that an intercepted press left in the seat's
\* SupressedKeys is intercepted: no Action, nothing forwarded, and exactly one
\* instance of the code leaves the set.
C2_SuppressedRelease ==
    [][\A s \in Seats, k \in KeyCodes :
          (KeyStep(s, k, "Released") /\ Count(supressed[s], k) > 0) =>
              /\ last'.result = "suppressed"
              /\ last'.action = NoAction
              /\ Len(supressed'[s]) = Len(supressed[s]) - 1
              /\ Count(supressed'[s], k) = Count(supressed[s], k) - 1
              /\ \A t \in Seats \ {s} : supressed'[t] = supressed[t]]_vars

\* A release was suppressed while a second instance of its code stays recorded.
C2_Witness ==
    /\ last.kind = "Keyboard"
    /\ last.seat \in Seats
    /\ last.state = "Released"
    /\ last.result = "suppressed"
    /\ Count(supressed[last.seat], last.code) = 1

\* C3: a press forwarded to the keyboard focus, followed by the release of the
\* same code on the same seat, does not grow the seat's SupressedKeys.
C3_ForwardedPressReleaseKeepsSize ==
    [][(/\ last.kind = "Keyboard"
        /\ last.seat \in Seats
        /\ last.state = "Pressed"
        /\ last.result = "forward"
        /\ KeyStep(last.seat, last.code, "Released"))
          => Len(supressed'[last.seat]) <= Len(supressed[last.seat])]_vars

\* C4: with every device delivering press and release of a code in turn, the
\* key events forwarded to a seat's focus for a code go press, release, press,
\* ...: no forwarded press while the client has the code down, no forwarded
\* release while it has not, and no intercepted release of a code whose press
\* the client has seen.
C4_ForwardedKeysAlternate ==
    [][\A s \in Seats, k \in KeyCodes :
          /\ (KeyStep(s, k, "Pressed") /\ last'.result = "forward")
                => <<s, k>> \notin client_down
          /\ (KeyStep(s, k, "Released") /\ last'.result = "forward")
                => <<s, k>> \in client_down
          /\ (KeyStep(s, k, "Released") /\ last'.result # "forward")
                => <<s, k>> \notin client_down]_allvars

\* C5: an Action is yielded only by a press whose modifier state equals the
\* modifiers of a binding and whose key has the binding's keysym among its raw
\* keysyms; an extra modifier or a release yields none.
C5_ActionOnlyOnExactMatch ==
    (last.kind = "Keyboard" /\ last.seat \in Seats /\ last.action # NoAction) =>
        /\ last.state = "Pressed"
        /\ \E i \in 1..Len(key_bindings) :
              /\ key_bindings[i].modifiers = last.modifiers
              /\ key_bindings[i].key \in raw_syms(last.code)
              /\ key_bindings[i].action = last.action

\* A press of the "d" key with Shift held beyond {Logo}+d went to the client.
C5_Witness ==
    /\ last.kind = "Keyboard"
    /\ last.seat \in Seats
    /\ last.state = "Pressed"
    /\ last.code = 2
    /\ last.modifiers = {"Logo", "Shift"}
    /\ last.result = "forward"
    /\ last.action = NoAction

\* C6: a press that matches a binding and that the overlay does not consume
\* runs the bound Action once, records the code and forwards nothing.
C6_BindingEffectsTogether ==
    [][\A s \in Seats, k \in KeyCodes :
          (/\ KeyStep(s, k, "Pressed")
           /\ last'.result \notin {"debug_state", "log_state"}
           /\ \E i \in 1..Len(key_bindings) :
                 /\ key_bindings[i].modifiers = last'.modifiers
                 /\ key_bindings[i].key \in raw_syms(k))
          => /\ last'.result = "binding"
             /\ \E i \in 1..Len(key_bindings) :
                   /\ key_bindings[i].modifiers = last'.modifiers
                   /\ key_bindings[i].key \in raw_syms(k)
                   /\ key_bindings[i].action = last'.action
             /\ supressed'[s] = Append(supressed[s], k)
             /\ egui_active' = (IF last'.action.type = "Debug" THEN ~egui_active ELSE egui_active)
             /\ should_stop' = (last'.action.type = "Terminate")]_vars

\* Logo+d toggled the overlay on and left its code recorded.
C6_Witness ==
    /\ last.kind = "Keyboard"
    /\ last.seat \in Seats
    /\ last.result = "binding"
    /\ last.action.type = "Debug"
    /\ egui_active
    /\ Count(supressed[last.seat], last.code) = 1

\* C7: after a relative pointer motion the emitted position lies within
\* [origin, origin + size] of the seat's resolved active output on both axes.
C7_MotionPositionClamped ==
    (last.kind = "PointerMotion" /\ last.result = "motion") =>
        LET geo == output_geometry(active_output_of(active_output[last.seat])) IN
        /\ last.output = active_output_of(active_output[last.seat])
        /\ geo.loc[1] <= last.position[1]
        /\ last.position[1] <= geo.loc[1] + geo.size[1]
        /\ geo.loc[2] <= last.position[2]
        /\ last.position[2] <= geo.loc[2] + geo.size[2]

\* The surfaces of a scene that cover a queried position: a layer surface
\* covers it when the position, taken from the output's origin, is on the
\* layer's geometry, and a window when the position in the Space is on it.
CoveringLayers(sc, bands, relative_pos) ==
    {i \in 1..Len(sc.layers) :
        /\ sc.layers[i].layer \in bands
        /\ Contains(sc.layers[i], Minus(relative_pos, sc.loc))}
CoveringWindows(sc, relative_pos) ==
    {i \in 1..Len(sc.windows) : Contains(sc.windows[i], relative_pos)}

\* C8: surface_under keeps the band order Overlay, Top, windows, Bottom,
\* Background: where an Overlay or Top layer surface and a window both cover
\* the position the layer surface is returned, and where a window and a Bottom
\* or Background layer surface both cover it (and no upper layer does) the
\* window is returned.
C8_BandOrder ==
    hit.result = "hit" =>
        LET sc    == scene[hit.output]
            upper == CoveringLayers(sc, {"Overlay", "Top"}, hit.relative_pos)
            lower == CoveringLayers(sc, {"Bottom", "Background"}, hit.relative_pos)
            wins  == CoveringWindows(sc, hit.relative_pos)
        IN
        /\ (upper # {} /\ wins # {}) =>
              \E i \in upper : hit.under.surface = sc.layers[i].id
        /\ (upper = {} /\ wins # {} /\ lower # {}) =>
              \E i \in wins : hit.under.surface = sc.windows[i].id

\* C9: in the frame of a pointer-axis event of a registered device, the amount
\* of an axis is the continuous amount the device supplies, and three times
\* the discrete step count when it supplies only that; the frame carries the
\* amount as its value when it is not zero.
C9_AxisAmountNormalised ==
    (last.kind = "PointerAxis" /\ last.result = "frame") =>
        \A axis \in {1, 2} :
            LET f == IF axis = 1 THEN last.frame.horizontal ELSE last.frame.vertical IN
            /\ last.amount[axis] # None =>
                  last.computed[axis] = last.amount[axis][1]
            /\ (last.amount[axis] = None /\ last.discrete[axis] # None) =>
                  last.computed[axis] = last.discrete[axis][1] * 3
            /\ last.computed[axis] # 0 => f.value = Some(last.computed[axis])

\* One frame with a step of 1 and no continuous amount on the horizontal axis
\* (value 3) and a continuous amount beside a step on the vertical (value 2).
C9_Witness ==
    /\ last.kind = "PointerAxis"
    /\ last.result = "frame"
    /\ last.amount = <<None, Some(2)>>
    /\ last.discrete = <<Some(1), Some(1)>>
    /\ last.frame.horizontal.value = Some(3)
    /\ last.frame.vertical.value = Some(2)

\* C10: in the frame of a pointer-axis event an axis is marked stopped iff the
\* source is Finger and its amount is zero, and carries a value iff its amount
\* is not zero; WheelTilt is reported as Wheel, and a Wheel or Continuous frame
\* marks no axis stopped.
C10_StopIffRestingFinger ==
    (last.kind = "PointerAxis" /\ last.result = "frame") =>
        /\ last.frame.source = (IF last.source = "WheelTilt" THEN "Wheel" ELSE last.source)
        /\ \A axis \in {1, 2} :
              LET f == IF axis = 1 THEN last.frame.horizontal ELSE last.frame.vertical IN
              /\ f.stop <=> (last.source = "Finger" /\ last.computed[axis] = 0)
              /\ (f.value # None) <=> (last.computed[axis] # 0)
              /\ last.frame.source \in {"Wheel", "Continuous"} => ~f.stop

\* A wheel frame with one axis at rest and unmarked, the other with a value.
C10_Witness ==
    /\ last.kind = "PointerAxis"
    /\ last.result = "frame"
    /\ last.source = "WheelTilt"
    /\ last.computed[1] = 0
    /\ ~last.frame.horizontal.stop
    /\ last.frame.horizontal.value = None
    /\ last.frame.vertical.value = Some(3)


\* C11: a button press with the pointer not grabbed makes the topmost hit the
\* seat's keyboard focus when it accepts the focus, and leaves the focus as it
\* is when the topmost hit is a layer surface that does not accept it.
C11_FocusFollowsFocusableHit ==
    [][(/\ last'.kind = "PointerButton"
        /\ last'.result = "button"
        /\ last'.state = "Pressed"
        /\ ~last'.grabbed
        /\ last'.top.kind # "none")
          => focus'[last'.seat] = IF last'.top.focusable THEN last'.top.id
                                  ELSE focus[last'.seat]]_vars


\* C12: no input event ends in a fatal failure: an event of a registered device
\* whose seat lacks the capability object, and an axis event with neither a
\* continuous amount nor a discrete step on an axis, are dropped.
C12_NoFatalFailure ==
    /\ ~panicked
    /\ last.kind \in {"Keyboard", "PointerMotion", "PointerMotionAbsolute",
                      "PointerButton", "PointerAxis"} => last.result # "panic"


\* C13: in every reachable state each key code is at most once in a seat's
\* SupressedKeys, whatever the key events were.
C13_AtMostOnce ==
    \A s \in Seats, k \in KeyCodes : Count(supressed[s], k) <= 1

\* C13 as the code has it: SupressedKeys holds one instance of a code for every
\* interception that recorded it and that no suppressed release has taken out.
\* A key event that a binding or the overlay intercepts adds one instance of its
\* code, a suppressed release takes one out, any other key event leaves the
\* count, and the counts of the other codes stay.
C13_OneInstancePerInterception ==
    [][\A s \in Seats, k \in KeyCodes :
          (last'.kind = "Keyboard" /\ last'.seat = s /\ last'.code = k) =>
              /\ Count(supressed'[s], k) = Count(supressed[s], k) +
                    (IF last'.result \in {"binding", "debug_state", "log_state"} THEN 1
                     ELSE IF last'.result = "suppressed" THEN -1 ELSE 0)
              /\ \A j \in KeyCodes \ {k} :
                    Count(supressed'[s], j) = Count(supressed[s], j)]_vars

\* A binding intercepted the press of a code that was recorded already.
C13_Witness ==
    /\ last.kind = "Keyboard"
    /\ last.seat \in Seats
    /\ last.state = "Pressed"
    /\ last.result = "binding"
    /\ Count(supressed[last.seat], last.code) = 2


\* C14: the serials of the emitted key, motion and button events go strictly
\* up in emission order, over all seats and kinds of event: no two emitted
\* events have the same serial.
C14_SerialsStrictlyIncrease ==
    \A i \in 1..Len(sent), j \in 1..Len(sent) : i < j => sent[i] < sent[j]

\* Three events went out, the last one a button on the second seat, with a
\* serial between them that an intercepted key took.
C14_Witness ==
    /\ Len(sent) = 3
    /\ sent[2] > sent[1] + 1
    /\ last.kind = "PointerButton"
    /\ last.seat = 1
    /\ last.result = "button"


\* The outputs the compositor knows.
KnownOutputs == {Outputs[i] : i \in 1..Len(Outputs)}

\* The step called set_active_output for the seat.
SetsActiveOutput(s) ==
    /\ last'.kind = "PointerMotion"
    /\ last'.result = "motion"
    /\ last'.seat = s
    /\ last'.output # last'.current_output

\* C15: active_output(seat) does not fail: it answers a known output for a
\* seat whose active output was never set, and the last output passed to
\* set_active_output for a seat whose active output was set.
C15_AnswersKnownOutput ==
    \A s \in Seats : active_output_of(active_output[s]) \in KnownOutputs
C15_AnswersLastSet ==
    \A s \in Seats :
        active_output_of(active_output'[s]) =
            IF SetsActiveOutput(s) THEN last'.output
            ELSE active_output_of(active_output[s])
C16_FilterPrecedence ==
    [][\A s \in Seats :
          (last'.kind = "Keyboard" /\ last'.seat = s /\ last'.result # "panic") =>
              LET recorded == /\ last'.state = "Released"
                              /\ Count(supressed[s], last'.code) > 0
                  overlay  == /\ s = 0
                              /\ egui_active
                              /\ (last'.wants[1] \/ last'.wants[2])
                  bound    == /\ last'.state = "Pressed"
                              /\ \E i \in 1..Len(key_bindings) :
                                    /\ key_bindings[i].modifiers = last'.modifiers
                                    /\ key_bindings[i].key \in raw_syms(last'.code)
              IN
              last'.result =
                  IF recorded THEN "suppressed"
                  ELSE IF overlay
                  THEN (IF last'.wants[1] THEN "debug_state" ELSE "log_state")
                  ELSE IF bound THEN "binding"
                  ELSE "forward"]_vars

\* The overlay wanted the release of a recorded code that was pressed with the
\* modifiers of a binding, and the release was suppressed all the same.
C16_Witness ==
    /\ last.kind = "Keyboard"
    /\ last.seat = 0
    /\ last.state = "Released"
    /\ last.result = "suppressed"
    /\ last.wants = <<TRUE, TRUE>>
    /\ last.modifiers = {"Logo"}
    /\ egui_active


\* C17: one key press yields at most one Action, and when several entries of
\* the binding table match it, the Action is that of the first of them in the
\* table's iteration order: that Action alone takes effect.
C17_FirstMatchingBindingWins ==
    [][(last'.kind = "Keyboard" /\ last'.seat \in Seats /\ last'.result = "binding") =>
          LET hits == {i \in 1..Len(key_bindings) :
                          /\ key_bindings[i].modifiers = last'.modifiers
                          /\ key_bindings[i].key \in raw_syms(last'.code)} IN
          /\ last'.state = "Pressed"
          /\ \E i \in hits :
                /\ \A j \in hits : i <= j
                /\ last'.action = key_bindings[i].action
                /\ egui_active' = (IF key_bindings[i].action.type = "Debug"
                                   THEN ~egui_active ELSE egui_active)
                /\ should_stop' = (should_stop \/ key_bindings[i].action.type = "Terminate")]_vars

\* Logo and the key with the keysyms d and ssharp: two entries match, the
\* first one (Debug) ran and switched the overlay on.
C17_Witness ==
    /\ last.kind = "Keyboard"
    /\ last.result = "binding"
    /\ last.code = 2
    /\ last.modifiers = {"Logo"}
    /\ last.action = [type |-> "Debug"]
    /\ Cardinality({i \in 1..Len(key_bindings) :
                       /\ key_bindings[i].modifiers = last.modifiers
                       /\ key_bindings[i].key \in raw_syms(last.code)}) = 2
    /\ egui_active


\* C18: after a relative pointer motion the seat's active output is the output
\* whose geometry has the new position (the old one plus the delta, not yet
\* clamped) when there is one, and the previous active output otherwise; the
\* ActiveOutput cell is written only when the two differ.
C18_MotionResolvesOutput ==
    [][\A s \in Seats :
          (last'.kind = "PointerMotion" /\ last'.result = "motion" /\ last'.seat = s) =>
              LET previous == active_output_of(active_output[s])
                  on == {o \in KnownOutputs : Contains(output_geometry(o), last'.moved)}
              IN
              /\ \E delta \in Deltas : last'.moved = Plus(location[s], delta)
              /\ on # {} => active_output_of(active_output'[s]) \in on
              /\ on = {} => active_output_of(active_output'[s]) = previous
              /\ active_output'[s] # active_output[s] =>
                    active_output_of(active_output'[s]) # previous
              /\ \A t \in Seats \ {s} : active_output'[t] = active_output[t]]_vars

\* A motion took the pointer from A over to B.
C18_Witness ==
    /\ last.kind = "PointerMotion"
    /\ last.result = "motion"
    /\ last.current_output = "A"
    /\ last.output = "B"
    /\ active_output[last.seat] = "B"
    /\ Contains(output_geometry("B"), last.moved)


\* C19: a seat's ActiveOutput cell changes only in relative pointer motion and
\* when a DeviceAdded activates a capability: keyboard events with the Actions
\* they run, absolute motion, buttons, scrolling and DeviceRemoved leave the
\* cell of every seat as it is.
C19_OnlyMotionAndActivationWrite ==
    [][/\ last'.kind \in {"Keyboard", "PointerMotionAbsolute", "PointerButton",
                          "PointerAxis", "DeviceRemoved"}
             => active_output' = active_output
       /\ active_output' # active_output
             => \/ last'.kind = "PointerMotion" /\ last'.result = "motion"
                \/ last'.kind = "DeviceAdded" /\ last'.created # {}]_vars

\* The mouse of a seat that was moved to B was unplugged, and B stays stored.
C19_Witness ==
    /\ last.kind = "DeviceRemoved"
    /\ last.removed = {"Pointer"}
    /\ active_output[last.seat] = "B"


C20_PointerSeatHasOutput ==
    \A s \in Seats : pointer[s] => active_output[s] \in KnownOutputs
C20_PointerActivationInserts ==
    \A s \in Seats :
        (last'.kind = "DeviceAdded" /\ last'.seat = s) =>
            active_output'[s] =
                IF "Pointer" \in last'.created /\ active_output[s] = NoOutput
                THEN Outputs[1]
                ELSE active_output[s]
C21_OneButtonEventFocusKept ==
    [][last'.kind = "PointerButton" =>
          LET s == last'.seat
              registered == \E d \in ButtonEventSources : OwnerSeat(d) # NoSeat
          IN
          /\ registered =>
                /\ s \in Seats
                /\ last'.result \in {"button", "debug_state", "log_state"}
                /\ last'.result # "button" => OverlayActiveFor(s)
          /\ (s \in Seats /\ last'.result \notin {"debug_state", "log_state"}) =>
                /\ last'.result = "button"
                /\ last'.serials = 1
                /\ serial' = serial + 1
                /\ last'.serial = serial
                /\ (last'.state = "Released" \/ last'.grabbed) =>
                      /\ focus' = focus
                      /\ ~last'.set_focus]_vars

\* A press while the pointer is grabbed reached the pointer and left the
\* keyboard focus on the window an earlier press gave it.
C21_Witness ==
    /\ last.kind = "PointerButton"
    /\ last.result = "button"
    /\ last.state = "Pressed"
    /\ last.grabbed
    /\ focus[last.seat] = "win_a"
    /\ FocusUnder(Minus(location[last.seat],
                        output_geometry(active_output_of(active_output[last.seat])).loc),
                  scene[active_output_of(active_output[last.seat])]).under # "win_a"


\* C22: the debug overlay consumes a keyboard, pointer-button or pointer-axis
\* event only when the overlay is active and the event's device is registered
\* on the primary seat (seat 0); an event of a device that another seat owns is
\* never consumed by the overlay and goes to that seat's keyboard or pointer.
C22_OverlayOnlyForPrimarySeat ==
    [][last'.kind \in {"Keyboard", "PointerButton", "PointerAxis"} =>
          LET owner == IF last'.kind = "PointerAxis" /\ last'.seat = 0
                                                    /\ last'.result # "frame"
                       THEN last'.owner ELSE last'.seat
              consumed == last'.result \in {"debug_state", "log_state"}
          IN
          /\ consumed => egui_active /\ owner = 0
          /\ owner \in Seats \ {0} =>
                last'.result \in {"forward", "binding", "suppressed", "button", "frame"}]_vars


\* An event of device d, of any kind and with any content.
EventOf(d) ==
    \/ DeviceRemoved(d)
    \/ \E code \in KeyCodes, state \in KeyStates, modifiers \in ModifierStates,
          wants_debug \in BOOLEAN, wants_log \in BOOLEAN :
           Keyboard(d, code, state, modifiers, wants_debug, wants_log)
    \/ PointerMotion(d, <<3, 1>>)
    \/ PointerMotionAbsolute(d, <<0, 1>>)
    \/ \E state \in ButtonStates, grabbed \in BOOLEAN,
          wants_debug \in BOOLEAN, wants_log \in BOOLEAN :
           PointerButton(d, state, grabbed, wants_debug, wants_log)
    \/ \E wants_debug \in BOOLEAN, wants_log \in BOOLEAN :
           PointerAxis(d, "Wheel", <<None, None>>, <<Some(1), Some(0)>>,
                       wants_debug, wants_log)

\* C23: an event of a device that no seat has registered is a no-op: a
\* DeviceRemoved removes no capability and changes no registry, and a keyboard,
\* motion, button or axis event emits no protocol event (no serial is taken),
\* runs no Action, and leaves the registry, the capabilities, the suppressed
\* keys, the active output, the pointer location and the focus of every seat
\* unchanged.
C23_UnknownDeviceNoOp ==
    [][\A d \in StrayEventSources :
          ((\A s \in Seats : ~Devices_has_device(devices[s], d)) /\ EventOf(d)) =>
              /\ UNCHANGED <<devices, keyboard, pointer, supressed, active_output,
                             location, focus, serial, egui_active, should_stop,
                             panicked>>
              /\ IF last'.kind = "DeviceRemoved"
                 THEN last'.removed = {}
                 ELSE \/ last'.result = "dropped"
                      \/ /\ last'.kind = "PointerAxis"
                         /\ last'.result \in {"debug_state", "log_state"}]_vars

\* A device that is not registered sent a DeviceRemoved while a seat has both
\* capabilities, a suppressed key and a focused window.
C23_Witness ==
    /\ last.kind = "DeviceRemoved"
    /\ last.seat = NoSeat
    /\ \E s \in Seats :
          /\ keyboard[s] /\ pointer[s]
          /\ supressed[s] # SupressedKeys_new
          /\ active_output[s] = "B"


\* C24: a DeviceAdded registers the device on the last-active seat and changes
\* the registry and the capability objects of no other seat; a DeviceRemoved
\* takes the device out of the registry of the seat that owns it (the first one
\* the scan finds), tears capabilities down on that seat only, and leaves the
\* registry and the capability objects of every other seat unchanged.
C24_HotPlugTouchesOneSeat ==
    [][LET d == last'.device
           OthersKept(s) ==
               \A t \in Seats \ {s} :
                   /\ devices'[t] = devices[t]
                   /\ keyboard'[t] = keyboard[t]
                   /\ pointer'[t] = pointer[t]
           owners == {s \in Seats : Devices_has_device(devices[s], d)}
       IN
       /\ last'.kind = "DeviceAdded" =>
             /\ last'.seat = last_active_seat
             /\ Devices_has_device(devices'[last_active_seat], d)
             /\ OthersKept(last_active_seat)
       /\ (last'.kind = "DeviceRemoved" /\ owners # {}) =>
             LET s == CHOOSE s \in owners : \A t \in owners : s <= t IN
             /\ last'.seat = s
             /\ ~Devices_has_device(devices'[s], d)
             /\ DOMAIN devices'[s] = DOMAIN devices[s] \ {d}
             /\ OthersKept(s)]_vars

\* The second seat's only device was unplugged, taking its keyboard and pointer
\* down, while the first seat keeps its devices and both capabilities.
C24_Witness ==
    /\ last.kind = "DeviceRemoved"
    /\ last.seat = 1
    /\ last.removed = {"Keyboard", "Pointer"}
    /\ devices[1] = Devices_new
    /\ DOMAIN devices[0] = {"kbd", "mouse"}
    /\ keyboard[0] /\ pointer[0]


\* The number of registered devices that provide capability c.
ProviderCount(map, c) == Cardinality({i \in DOMAIN map : c \in map[i]})

\* C25: the registry answers as a reference-counted capability map would: for
\* every sequence of add_device and remove_device calls, with ids that are
\* registered already and ids that are not, add_device returns exactly the
\* capabilities whose provider count goes from 0 to 1 and remove_device exactly
\* those whose provider count goes from 1 to 0.
C25_RegistryIsReferenceCounted ==
    [][LET before == devices[last'.registry]
           after  == devices'[last'.registry]
       IN
       /\ last'.kind = "add_device" =>
             /\ last'.returned =
                   {c \in {"Keyboard", "Pointer"} :
                       ProviderCount(before, c) = 0 /\ ProviderCount(after, c) = 1}
             /\ DOMAIN after = DOMAIN before \cup {last'.device}
       /\ last'.kind = "remove_device" =>
             /\ last'.returned =
                   {c \in {"Keyboard", "Pointer"} :
                       ProviderCount(before, c) = 1 /\ ProviderCount(after, c) = 0}
             /\ DOMAIN after = DOMAIN before \ {last'.device}]_vars

\* A keyboard-only device left a registry that still has another provider of
\* the keyboard capability: nothing is returned.
C25_Witness ==
    /\ last.kind = "remove_device"
    /\ last.device = "kbd"
    /\ last.returned = {}
    /\ DOMAIN devices[last.registry] = {"combo", "mouse"}


\* C26: a pointer-absolute motion event resolves no output: the active output
\* of every seat is the same before and after it, the position it emits is the
\* origin of the seat's active output plus the device coordinate scaled to that
\* output's size, and so the position lies within the active output's geometry.
C26_AbsoluteMotionStaysOnOutput ==
    [][(last'.kind = "PointerMotionAbsolute" /\ last'.result = "motion") =>
          LET s == last'.seat
              geometry == output_geometry(active_output[s])
          IN
          /\ active_output' = active_output
          /\ active_output[s] \in KnownOutputs
          /\ last'.output = active_output[s]
          /\ \E transformed \in Places :
                last'.position = Plus(geometry.loc, transformed)
          /\ Contains(geometry, last'.position)
          /\ location'[s] = last'.position]_vars

\* An absolute motion of a seat whose active output is B put the pointer on B.
C26_Witness ==
    /\ last.kind = "PointerMotionAbsolute"
    /\ last.result = "motion"
    /\ last.output = "B"
    /\ active_output[last.seat] = "B"
    /\ last.position = <<4, 2>>
    /\ location[last.seat] = <<4, 2>>


\* C27: in every reachable state a device id is registered on at most one
\* seat, whatever DeviceAdded and DeviceRemoved events arrive and however the
\* last-active seat changes between them (a DeviceAdded may name an id that is
\* still registered); so after a DeviceRemoved no seat has the device.
C27_DeviceOnAtMostOneSeat ==
    /\ [](\A d \in DeviceIds :
             Cardinality({s \in Seats : Devices_has_device(devices[s], d)}) <= 1)
    /\ [][last'.kind = "DeviceRemoved" =>
             \A s \in Seats : ~Devices_has_device(devices'[s], last'.device)]_vars


\* C28: running Action::Workspace(n) or Action::MoveToWorkspace(n) targets
\* workspace index 9 when n = 0 and index n - 1 otherwise, on the active output
\* of the seat that owns the key's device, and the subtraction never goes
\* below zero.
C28_WorkspaceIndexTarget ==
    [][(last'.kind = "Keyboard" /\ last'.action.type \in {"Workspace", "MoveToWorkspace"}) =>
          LET n == last'.action.n
              s == last'.seat
              owners == {t \in Seats : \E d \in WorkspaceEventSources :
                                          Devices_has_device(devices[t], d)}
          IN
          /\ Len(last'.workspace) = 1
          /\ n = 0 => last'.workspace[1] = 9
          /\ n # 0 => last'.workspace[1] = n - 1
          /\ last'.workspace[1] \in 0..254
          /\ s \in owners /\ \A t \in owners : s <= t
          /\ last'.output = IF active_output[s] = NoOutput THEN Outputs[1]
                            ELSE active_output[s]]_vars

\* Action::MoveToWorkspace(0) ran for a seat whose active output is B and
\* targeted index 9 there.
C28_Witness ==
    /\ last.kind = "Keyboard"
    /\ last.action = [type |-> "MoveToWorkspace", n |-> 0]
    /\ last.workspace = <<9>>
    /\ last.output = "B"
    /\ active_output[last.seat] = "B"

====
